---- MODULE Spec2Model ----
(***************************************************************************)
(* The session synchronization layer of frappe_deep_agents' SPA frontend:  *)
(* the SocketService singleton (frontend/src/socket.js) and the workspace  *)
(* component's store, event handlers and session switching                 *)
(* (frontend/src/pages/AgentWorkspace.vue, the first <script setup>).      *)
(*                                                                         *)
(* JavaScript is single threaded: a handler runs to completion, and an     *)
(* async function is cut at each await.  Every action below is one such    *)
(* run-to-completion piece.  The continuation that follows                 *)
(* `await loadSession(..)` runs in the microtask queued when loadSession   *)
(* returns, before any other task, so loadSession's tail and the           *)
(* subscribeToEvents() call after it form one action.                      *)
(***************************************************************************)
EXTENDS Integers, Sequences, FiniteSets, Bags, TLC

\* ------------------------------------------------------------- bounds
MaxSize == 3        \* largest transcript explored: replies, notices and streamed fragments
MaxTools == 2       \* longest toolCalls list explored
MaxSubs == 2        \* most subscribeToEvents() runs (done or pending)
MaxSends == 2       \* most send_message calls in flight
MaxSockets == 2     \* most physical sockets created
MaxUpdates == 1     \* most update_todo calls in flight

\* ------------------------------------------------------------- values
None == "none"                       \* null / undefined
Sessions == {"S1", "S2"}             \* session identifiers
Tokens == {"He", "llo"}              \* token fragments
Contents == {"hi", " "}              \* what the user types
ErrorTexts == {"boom"}               \* agent_error payloads
ToolNames == {"bash", "grep"}
\* a todo item, and the todo lists the server sends
Todo(name, status) == [name |-> name, status |-> status]
T1 == Todo("t1", "pending")
TodoLists == {<<T1>>}
FileLists == {<<"f1">>}
EventKinds == {"agent_token", "tool_call_start", "tool_call_complete",
               "agent_status", "todo_update", "file_update",
               "agent_complete", "agent_error"}

\* `agent_session_${name}`
Channel(name) == <<"agent_session_", name>>

\* content.trim(): the blank input trims to the empty string
trim(content) == IF content = " " THEN "" ELSE content

VARIABLES
    session,        \* session.value: the loaded session's name, or None
    messages,       \* messages.value
    todos,          \* todos.value
    files,          \* files.value
    toolCalls,      \* toolCalls.value
    isStreaming,    \* isStreaming.value
    agentStatus,    \* agentStatus.value
    loading,        \* loading.value
    create,         \* createSession(): where it is suspended, and its locals
    pendingLoads,   \* bag of get_session calls in flight, with their caller's locals
    pendingSends,   \* bag of send_message calls in flight (by session)
    pendingUpdates, \* bag of update_todo calls in flight, with their arguments
    socketService,  \* the SocketService singleton's fields
    io,             \* the physical sockets io() has created, in creation order
    subscribed,     \* channels subscribed and not unsubscribed on the connection
    emitted,        \* the subscribe/unsubscribe intents the last step emitted
    last            \* the last step's inbound event: its kind when addressed to the
                    \* loaded session, "foreign" when addressed to another, else "none"

storeVars == <<session, messages, todos, files, toolCalls, isStreaming, agentStatus, loading>>
asyncVars == <<create, pendingLoads, pendingSends, pendingUpdates>>
netVars == <<socketService, io, subscribed, emitted, last>>
vars == <<storeVars, asyncVars, netVars>>

\* ------------------------------------------------------------- the store as a value
Store == [session |-> session, messages |-> messages, todos |-> todos,
          files |-> files, toolCalls |-> toolCalls,
          isStreaming |-> isStreaming, agentStatus |-> agentStatus, loading |-> loading]

SetStore(st) ==
    /\ session' = st.session
    /\ messages' = st.messages
    /\ todos' = st.todos
    /\ files' = st.files
    /\ toolCalls' = st.toolCalls
    /\ isStreaming' = st.isStreaming
    /\ agentStatus' = st.agentStatus
    /\ loading' = st.loading

\* a message object; absent `streaming` / `timestamp` fields read as falsy
Msg(role, content, streaming, timestamp) ==
    [role |-> role, content |-> content, streaming |-> streaming, timestamp |-> timestamp]

\* what the agent's side has added to a transcript: assistant and system messages,
\* and the fragments streamed into assistant messages
RECURSIVE Size(_)
Size(ms) ==
    IF ms = <<>> THEN 0
    ELSE (CASE Head(ms).role = "assistant" -> 1 + Len(Head(ms).content)
            [] Head(ms).role = "system" -> 1
            [] OTHER -> 0)
         + Size(Tail(ms))

Fits(st) == Size(st.messages) <= MaxSize /\ Len(st.toolCalls) <= MaxTools

\* ------------------------------------------------------------- SocketService
\* The service, the sockets and the intent log as one value the methods transform.
Net == [svc |-> socketService, io |-> io, subscribed |-> subscribed, emitted |-> <<>>]

SetNet(w) ==
    /\ socketService' = w.svc
    /\ io' = w.io
    /\ subscribed' = w.subscribed
    /\ emitted' = w.emitted
    /\ last' = "none"

\* a step that emits nothing and processes no inbound event
Quiet == emitted' = <<>> /\ last' = "none"

NoListeners == [k \in EventKinds |-> 0]

\* the reconnectionAttempts option connect() passes to io()
reconnectionAttempts == 10

\* a socket io() just created: not connected yet, no listener, no failed reconnection
NewSocket == [conn |-> "connecting", listeners |-> NoListeners, attempts |-> 0]

\* connect(): reuse the socket only when it exists AND is connected
connect(w) ==
    IF w.svc.socket # 0 /\ w.svc.connected
    THEN w
    ELSE [w EXCEPT !.io = Append(@, NewSocket),
                   !.svc.socket = Len(w.io) + 1]

\* socket.emit(op, channel) on the held socket
emitIntent(w, op, channel) ==
    [w EXCEPT !.emitted = Append(@, [op |-> op, channel |-> channel]),
              !.subscribed = IF op = "subscribe" THEN @ \cup {channel}
                             ELSE IF op = "unsubscribe" THEN @ \ {channel}
                             ELSE @]

\* subscribe without the implicit connect()
subscribe_noConnect(w, channel) == emitIntent(w, "subscribe", channel)

subscribe(w, channel) ==
    LET w1 == IF w.svc.socket = 0 THEN connect(w) ELSE w
    IN  emitIntent(w1, "subscribe", channel)

unsubscribe(w, channel) ==
    IF w.svc.socket = 0 THEN w
    ELSE LET w1 == emitIntent(w, "unsubscribe", channel)
         IN  [w1 EXCEPT !.svc.eventHandlers = @ \ {channel}]

\* on(event, callback): one more listener for `event` on the held socket
on(w, event) ==
    LET w1 == IF w.svc.socket = 0 THEN connect(w) ELSE w
    IN  [w1 EXCEPT !.io[w1.svc.socket].listeners[event] = @ + 1]

emit(w, event, data) ==
    LET w1 == IF w.svc.socket = 0 THEN connect(w) ELSE w
    IN  emitIntent(w1, event, data)

disconnect(w) ==
    IF w.svc.socket # 0
    THEN [w EXCEPT !.io[w.svc.socket].conn = "closed",
                   !.svc = [socket |-> 0, connected |-> FALSE, eventHandlers |-> {}],
                   !.subscribed = {}]
    ELSE w

\* ------------------------------------------------------------- get_session results
\* A get_session response.  `missing` names the list fields the response lacks,
\* which loadSession reads through `result.x || []`.
OldMessage == Msg("user", <<"hi">>, FALSE, TRUE)
OldToolCall == [tool_name |-> "bash", input |-> "ls", status |-> "success", output |-> "ok"]

\* the statuses a session document can have
SessionStatuses == {"active", "completed", "error", "timeout"}

\* a response that carries none of the four lists
Bare(sid, status) ==
    [name |-> sid, status |-> status, missing |-> {"messages", "todos", "files", "tool_calls"},
     messages |-> <<>>, todos |-> <<>>, files |-> <<>>, tool_calls |-> <<>>]

Snapshots(sid) ==
    { Bare(sid, status) : status \in SessionStatuses \ {"completed"} }
    \cup { [name |-> sid, status |-> "completed", missing |-> {},
            messages |-> <<OldMessage>>, todos |-> <<T1>>, files |-> <<"f1">>,
            tool_calls |-> <<OldToolCall>>] }

orEmpty(result, field) == IF field \in result.missing THEN <<>> ELSE result[field]

\* ------------------------------------------------------------- loadSession
\* loadSessionOk forgetting the tool calls of the response
loadSessionOk_keepsToolCalls(st, result) ==
    [st EXCEPT !.session = result.name,
               !.messages = orEmpty(result, "messages"),
               !.todos = orEmpty(result, "todos"),
               !.files = orEmpty(result, "files"),
               !.agentStatus = IF result.status = "active" THEN "idle" ELSE result.status,
               !.loading = FALSE]

\* the try block after `await agentAPI.getSession(sessionId)` resolved
loadSessionOk(st, result) ==
    [st EXCEPT !.session = result.name,
               !.messages = orEmpty(result, "messages"),
               !.todos = orEmpty(result, "todos"),
               !.files = orEmpty(result, "files"),
               !.toolCalls = orEmpty(result, "tool_calls"),
               !.agentStatus = IF result.status = "active" THEN "idle" ELSE result.status,
               !.loading = FALSE]

\* loadSession's first statement, before the await
loadSessionStart(st) == [st EXCEPT !.loading = TRUE]

\* the catch block not reporting the failure
loadSessionFail_silent(st) == [st EXCEPT !.loading = FALSE]

\* the catch block, then the finally block
loadSessionFail(st) == [st EXCEPT !.agentStatus = "error", !.loading = FALSE]

\* ------------------------------------------------------------- subscribeToEvents
\* the eight socketService.on(..) calls, in source order
HandlerKinds == <<"agent_token", "tool_call_start", "tool_call_complete", "agent_status",
                  "todo_update", "file_update", "agent_complete", "agent_error">>

RECURSIVE onAll(_, _)
onAll(w, kinds) ==
    IF kinds = <<>> THEN w ELSE onAll(on(w, Head(kinds)), Tail(kinds))

subscribeToEvents(st, w) ==
    IF st.session = None THEN w
    ELSE onAll(subscribe(w, Channel(st.session)), HandlerKinds)

\* ------------------------------------------------------------- the store's mutators
\* appendToken without the test of the last message's streaming flag
appendToken_unguarded(st, token) ==
    LET n == Len(st.messages)
    IN  IF n > 0 THEN [st EXCEPT !.messages[n].content = Append(@, token)] ELSE st

appendToken(st, token) ==
    LET n == Len(st.messages)
    IN  IF n > 0 /\ st.messages[n].streaming
        THEN [st EXCEPT !.messages[n].content = Append(@, token)]
        ELSE st

finishStreaming(st) ==
    LET n == Len(st.messages)
    IN  IF n > 0
        THEN [st EXCEPT !.messages[n].streaming = FALSE, !.messages[n].timestamp = TRUE]
        ELSE st

\* findRunning matching on the name alone
findNamed(tcs, name) ==
    LET hits == {k \in 1..Len(tcs) : tcs[k].tool_name = name}
    IN  IF hits = {} THEN 0 ELSE CHOOSE k \in hits : \A j \in hits : k <= j

\* index of the first tool call with this name that is running, 0 when none
findRunning(tcs, name) ==
    LET hits == {k \in 1..Len(tcs) : tcs[k].tool_name = name /\ tcs[k].status = "running"}
    IN  IF hits = {} THEN 0 ELSE CHOOSE k \in hits : \A j \in hits : k <= j

\* ------------------------------------------------------------- the eight handlers
on_agent_token(st, data) ==
    IF data.session = st.session
    THEN appendToken([st EXCEPT !.agentStatus = "streaming"], data.token)
    ELSE st

on_tool_call_start(st, data) ==
    IF data.session = st.session
    THEN [st EXCEPT !.agentStatus = "running",
                    !.toolCalls = Append(@, [tool_name |-> data.tool_name, input |-> data.input,
                                             status |-> "running", output |-> None])]
    ELSE st

on_tool_call_complete(st, data) ==
    IF data.session = st.session
    THEN LET k == findRunning(st.toolCalls, data.tool_name)
         IN  IF k # 0
             THEN [st EXCEPT !.toolCalls[k].status = IF data.success THEN "success" ELSE "error",
                             !.toolCalls[k].output = data.output]
             ELSE st
    ELSE st

on_agent_status(st, data) ==
    IF data.session = st.session THEN [st EXCEPT !.agentStatus = data.status] ELSE st

\* on_todo_update without its session check
on_todo_update_unfiltered(st, data) == [st EXCEPT !.todos = data.todos]

\* on_todo_update keeping the old list when the event's list is empty
on_todo_update_keeping(st, data) ==
    IF data.session = st.session
    THEN [st EXCEPT !.todos = IF data.todos = <<>> THEN @ ELSE data.todos]
    ELSE st

on_todo_update(st, data) ==
    IF data.session = st.session THEN [st EXCEPT !.todos = data.todos] ELSE st

on_file_update(st, data) ==
    IF data.session = st.session THEN [st EXCEPT !.files = data.files] ELSE st

on_agent_complete(st, data) ==
    IF data.session = st.session
    THEN finishStreaming([st EXCEPT !.isStreaming = FALSE, !.agentStatus = "completed"])
    ELSE st

on_agent_error(st, data) ==
    IF data.session = st.session
    THEN [st EXCEPT !.isStreaming = FALSE,
                    !.agentStatus = "error",
                    !.messages = Append(@, Msg("system", <<"Error: ", data.error>>, FALSE, FALSE))]
    ELSE st

\* the callback subscribeToEvents registered for `kind`
handler(kind, st, data) ==
    CASE kind = "agent_token" -> on_agent_token(st, data)
      [] kind = "tool_call_start" -> on_tool_call_start(st, data)
      [] kind = "tool_call_complete" -> on_tool_call_complete(st, data)
      [] kind = "agent_status" -> on_agent_status(st, data)
      [] kind = "todo_update" -> on_todo_update(st, data)
      [] kind = "file_update" -> on_file_update(st, data)
      [] kind = "agent_complete" -> on_agent_complete(st, data)
      [] kind = "agent_error" -> on_agent_error(st, data)

\* the socket calls every listener registered for the event, in registration order
RECURSIVE dispatch(_, _, _, _)
dispatch(kind, st, data, n) ==
    IF n = 0 THEN st ELSE dispatch(kind, handler(kind, st, data), data, n - 1)

\* ------------------------------------------------------------- model bookkeeping
\* listener sets registered on the held socket (one per subscribeToEvents run)
ListenerSets ==
    IF socketService.socket = 0 THEN 0 ELSE io[socketService.socket].listeners["agent_token"]

\* subscribeToEvents runs done or still to come: the model explores at most MaxSubs
CanStartLoad ==
    ListenerSets + BagCardinality(pendingLoads) + (IF create.pc = "idle" THEN 0 ELSE 1) < MaxSubs

Load(sid, left, by) == SetToBag({[sid |-> sid, left |-> left, by |-> by]})

\* ------------------------------------------------------------- session switching
\* handleSelectSession(sessionId), up to `await loadSession(sessionId)`
HandleSelectSession(sid) ==
    /\ CanStartLoad
    /\ SetNet(IF session # None THEN unsubscribe(Net, Channel(session)) ELSE Net)
    /\ messages' = <<>>
    /\ toolCalls' = <<>>
    /\ files' = <<>>
    /\ todos' = <<>>
    /\ loading' = loadSessionStart(Store).loading
    /\ pendingLoads' = pendingLoads (+) Load(sid, session, "select")
    /\ UNCHANGED <<session, isStreaming, agentStatus, create, pendingSends, pendingUpdates>>

\* what runs when a get_session call settles: loadSession's tail, then the caller's
\* subscribeToEvents(), then (createSession only) its finally block
AfterLoad(p, st) ==
    /\ Fits(st)
    /\ SetStore(st)
    /\ SetNet(subscribeToEvents(st, Net))
    /\ pendingLoads' = pendingLoads (-) SetToBag({p})
    /\ create' = IF p.by = "create" THEN [pc |-> "idle", name |-> None, left |-> None]
                 ELSE create
    /\ UNCHANGED <<pendingSends, pendingUpdates>>

LoadResolved(p, result) == AfterLoad(p, loadSessionOk(Store, result))

LoadRejected(p) == AfterLoad(p, loadSessionFail(Store))

GetSessionResolves ==
    \E p \in BagToSet(pendingLoads) : \E result \in Snapshots(p.sid) : LoadResolved(p, result)

GetSessionRejects ==
    \E p \in BagToSet(pendingLoads) : LoadRejected(p)

SelectSession == \E sid \in Sessions : HandleSelectSession(sid)

\* createSession(), up to `await agentAPI.createSession(..)`; the dialog's button is
\* disabled while `creating` is set
CreateSession ==
    /\ create.pc = "idle"
    /\ CanStartLoad
    /\ create' = [create EXCEPT !.pc = "creating"]
    /\ Quiet
    /\ UNCHANGED <<storeVars, pendingLoads, pendingSends, pendingUpdates, socketService, io, subscribed>>

\* create_session resolved with a new session's name: unsubscribe, then
\* `await loadSessions()`
CreateResolved(name) ==
    /\ create.pc = "creating"
    /\ name # session
    /\ SetNet(IF session # None THEN unsubscribe(Net, Channel(session)) ELSE Net)
    /\ create' = [pc |-> "listing", name |-> name, left |-> session]
    /\ UNCHANGED <<storeVars, pendingLoads, pendingSends, pendingUpdates>>

\* create_session rejected: the catch logs, the finally clears `creating`
CreateRejected ==
    /\ create.pc = "creating"
    /\ create' = [pc |-> "idle", name |-> None, left |-> None]
    /\ Quiet
    /\ UNCHANGED <<storeVars, pendingLoads, pendingSends, pendingUpdates, socketService, io, subscribed>>

\* loadSessions() settled (it catches its own errors): `await loadSession(result.name)`
CreateListed ==
    /\ create.pc = "listing"
    /\ create' = [create EXCEPT !.pc = "loading"]
    /\ pendingLoads' = pendingLoads (+) Load(create.name, create.left, "create")
    /\ SetStore(loadSessionStart(Store))
    /\ Quiet
    /\ UNCHANGED <<pendingSends, pendingUpdates, socketService, io, subscribed>>

CreateSessionResolves == \E name \in Sessions : CreateResolved(name)

\* ------------------------------------------------------------- sending
\* sendMessage not testing isStreaming
sendMessage_whileStreaming(st, content) ==
    IF trim(content) = "" \/ st.session = None
    THEN st
    ELSE [st EXCEPT !.messages = @ \o <<Msg("user", <<content>>, FALSE, TRUE),
                                        Msg("assistant", <<>>, TRUE, FALSE)>>,
                    !.isStreaming = TRUE,
                    !.agentStatus = "thinking"]

\* sendMessage pushing the user's message but no placeholder for the reply
sendMessage_noPlaceholder(st, content) ==
    IF trim(content) = "" \/ st.isStreaming \/ st.session = None
    THEN st
    ELSE [st EXCEPT !.messages = Append(@, Msg("user", <<content>>, FALSE, TRUE)),
                    !.isStreaming = TRUE,
                    !.agentStatus = "thinking"]

\* sendMessage(content), up to `await agentAPI.sendMessage(..)`
sendMessage(st, content) ==
    IF trim(content) = "" \/ st.isStreaming \/ st.session = None
    THEN st
    ELSE [st EXCEPT !.messages = @ \o <<Msg("user", <<content>>, FALSE, TRUE),
                                        Msg("assistant", <<>>, TRUE, FALSE)>>,
                    !.isStreaming = TRUE,
                    !.agentStatus = "thinking"]

\* whether sendMessage(content) gets past its guard and calls the send API
Accepted(st, content) == ~(trim(content) = "" \/ st.isStreaming \/ st.session = None)

SendMessage(content) ==
    /\ Fits(sendMessage(Store, content))
    /\ Accepted(Store, content) => BagCardinality(pendingSends) < MaxSends
    /\ SetStore(sendMessage(Store, content))
    /\ pendingSends' = IF Accepted(Store, content)
                       THEN pendingSends (+) SetToBag({session})
                       ELSE pendingSends
    /\ Quiet
    /\ UNCHANGED <<create, pendingLoads, pendingUpdates, socketService, io, subscribed>>

\* the message of the Error a rejected call carries; it can be empty
ErrorMessages == ErrorTexts \cup {""}

\* the catch block of sendMessage reporting nothing in the transcript
sendMessageFailed_silent(st, error) ==
    [st EXCEPT !.isStreaming = FALSE, !.agentStatus = "error"]

\* the catch block of sendMessage
sendMessageFailed(st, error) ==
    [st EXCEPT !.isStreaming = FALSE,
               !.agentStatus = "error",
               !.messages = Append(@, Msg("system",
                                          <<"Error: ", IF error.message # "" THEN error.message
                                                       ELSE "Failed to send message">>,
                                          FALSE, FALSE))]

SendResolved(s) ==
    /\ BagIn(s, pendingSends)
    /\ pendingSends' = pendingSends (-) SetToBag({s})
    /\ Quiet
    /\ UNCHANGED <<storeVars, create, pendingLoads, pendingUpdates, socketService, io, subscribed>>

SendRejected(s, error) ==
    /\ BagIn(s, pendingSends)
    /\ Fits(sendMessageFailed(Store, error))
    /\ SetStore(sendMessageFailed(Store, error))
    /\ pendingSends' = pendingSends (-) SetToBag({s})
    /\ Quiet
    /\ UNCHANGED <<create, pendingLoads, pendingUpdates, socketService, io, subscribed>>

UserSends == \E content \in Contents : SendMessage(content)
SendMessageResolves == \E s \in Sessions : SendResolved(s)
SendMessageRejects ==
    \E s \in Sessions, m \in ErrorMessages : SendRejected(s, [message |-> m])

\* ------------------------------------------------------------- todo toggling
\* TodoPanel's toggleTodo(todo): the status it asks for, None when it asks for nothing
toggleTodo(todo) ==
    IF todo.status = "in_progress" THEN None
    ELSE IF todo.status = "completed" THEN "pending" ELSE "completed"

\* index of the first todo with this name, 0 when none
findTodo(ts, name) ==
    LET hits == {k \in 1..Len(ts) : ts[k].name = name}
    IN  IF hits = {} THEN 0 ELSE CHOOSE k \in hits : \A j \in hits : k <= j

\* the status written into the store
setTodo(st, todoName, status) ==
    LET k == findTodo(st.todos, todoName)
    IN  IF k # 0 THEN [st EXCEPT !.todos[k].status = status] ELSE st

\* updateTodo flipping the status before the call is made
updateTodo_optimistic(st, todoName, status) == setTodo(st, todoName, status)

\* updateTodo(todoName, status), up to `await agentAPI.updateTodo(..)`
updateTodo(st, todoName, status) == st

\* after the await resolved: "Update local state"
updateTodoOk(st, todoName, status) == setTodo(st, todoName, status)

\* the catch block only logs
updateTodoFail(st) == st

\* the user clicks todo k in the panel
ToggleTodo(k) ==
    /\ toggleTodo(todos[k]) # None
    /\ BagCardinality(pendingUpdates) < MaxUpdates
    /\ SetStore(updateTodo(Store, todos[k].name, toggleTodo(todos[k])))
    /\ pendingUpdates' = pendingUpdates (+) SetToBag({Todo(todos[k].name, toggleTodo(todos[k]))})
    /\ Quiet
    /\ UNCHANGED <<create, pendingLoads, pendingSends, socketService, io, subscribed>>

UpdateTodoResolved(u) ==
    /\ BagIn(u, pendingUpdates)
    /\ SetStore(updateTodoOk(Store, u.name, u.status))
    /\ pendingUpdates' = pendingUpdates (-) SetToBag({u})
    /\ Quiet
    /\ UNCHANGED <<create, pendingLoads, pendingSends, socketService, io, subscribed>>

UpdateTodoRejected(u) ==
    /\ BagIn(u, pendingUpdates)
    /\ SetStore(updateTodoFail(Store))
    /\ pendingUpdates' = pendingUpdates (-) SetToBag({u})
    /\ Quiet
    /\ UNCHANGED <<create, pendingLoads, pendingSends, socketService, io, subscribed>>

ToggleTodos == \E k \in 1..Len(todos) : ToggleTodo(k)
UpdateTodoResolves == \E u \in BagToSet(pendingUpdates) : UpdateTodoResolved(u)
UpdateTodoRejects == \E u \in BagToSet(pendingUpdates) : UpdateTodoRejected(u)

\* ------------------------------------------------------------- inbound events
\* an event of `kind` arrives on open socket i: every listener for it runs
Deliver(i, kind, data) ==
    /\ io[i].conn = "open"
    /\ LET st == dispatch(kind, Store, data, io[i].listeners[kind])
       IN  Fits(st) /\ SetStore(st)
    /\ emitted' = <<>>
    /\ last' = IF data.session = session THEN kind ELSE "foreign"
    /\ UNCHANGED <<asyncVars, socketService, io, subscribed>>

AgentToken ==
    \E i \in 1..Len(io), s \in Sessions, t \in Tokens :
        Deliver(i, "agent_token", [session |-> s, token |-> t])

AgentComplete ==
    \E i \in 1..Len(io), s \in Sessions :
        Deliver(i, "agent_complete", [session |-> s])

AgentError ==
    \E i \in 1..Len(io), s \in Sessions, e \in ErrorTexts :
        Deliver(i, "agent_error", [session |-> s, error |-> e])

ToolCallStart(t) ==
    \E i \in 1..Len(io), s \in Sessions :
        Deliver(i, "tool_call_start", [session |-> s, tool_name |-> t, input |-> "ls"])

ToolCallComplete(t) ==
    \E i \in 1..Len(io), s \in Sessions, ok \in BOOLEAN :
        Deliver(i, "tool_call_complete",
                [session |-> s, tool_name |-> t, success |-> ok, output |-> "ok"])

AgentStatus(a) ==
    \E i \in 1..Len(io), s \in Sessions :
        Deliver(i, "agent_status", [session |-> s, status |-> a])

TodoUpdate ==
    \E i \in 1..Len(io), s \in Sessions, l \in TodoLists \cup {<<>>} :
        Deliver(i, "todo_update", [session |-> s, todos |-> l])

FileUpdate ==
    \E i \in 1..Len(io), s \in Sessions, l \in FileLists \cup {<<>>} :
        Deliver(i, "file_update", [session |-> s, files |-> l])

\* what reading a field the payload lacks yields: undefined, which is not a list
Undefined == [k \in {0} |-> "undefined"]

\* a todo_update / file_update event whose payload lacks its list
MalformedTodoUpdate ==
    \E i \in 1..Len(io), s \in Sessions :
        Deliver(i, "todo_update", [session |-> s, todos |-> Undefined])

MalformedFileUpdate ==
    \E i \in 1..Len(io), s \in Sessions :
        Deliver(i, "file_update", [session |-> s, files |-> Undefined])

\* ------------------------------------------------------------- the transport
\* socket i fires 'connect' for the first time: the handler of connect() sets the flag
SocketConnects(i) ==
    /\ io[i].conn = "connecting"
    /\ io' = [io EXCEPT ![i].conn = "open"]
    /\ socketService' = [socketService EXCEPT !.connected = TRUE]
    /\ Quiet
    /\ UNCHANGED <<storeVars, asyncVars, subscribed>>

\* socket i loses its connection and fires 'disconnect'; the server forgets its rooms
SocketDrops(i) ==
    /\ io[i].conn = "open"
    /\ io' = [io EXCEPT ![i].conn = "down"]
    /\ socketService' = [socketService EXCEPT !.connected = FALSE]
    /\ subscribed' = IF i = socketService.socket THEN {} ELSE subscribed
    /\ Quiet
    /\ UNCHANGED <<storeVars, asyncVars>>

\* socket i reconnects and fires 'connect' and 'reconnect'; the 'reconnect' handler
\* only logs
SocketReconnects(i) ==
    /\ io[i].conn = "down"
    /\ io' = [io EXCEPT ![i].conn = "open", ![i].attempts = 0]
    /\ socketService' = [socketService EXCEPT !.connected = TRUE]
    /\ Quiet
    /\ UNCHANGED <<storeVars, asyncVars, subscribed>>

\* a reconnection attempt of socket i fails; after reconnectionAttempts failures the
\* socket gives up and fires 'reconnect_failed', for which nothing is registered
SocketReconnectFails(i) ==
    /\ io[i].conn = "down"
    /\ io[i].attempts < reconnectionAttempts
    /\ io' = [io EXCEPT ![i].attempts = @ + 1,
                        ![i].conn = IF io[i].attempts + 1 = reconnectionAttempts
                                    THEN "failed" ELSE "down"]
    /\ Quiet
    /\ UNCHANGED <<storeVars, asyncVars, socketService, subscribed>>

Connects == \E i \in 1..Len(io) : SocketConnects(i)
ReconnectFails == \E i \in 1..Len(io) : SocketReconnectFails(i)
Drops == \E i \in 1..Len(io) : SocketDrops(i)
Reconnects == \E i \in 1..Len(io) : SocketReconnects(i)

\* ------------------------------------------------------------- specifications
\* onMounted has loaded the session and agent lists; with a sessionId prop its
\* get_session call is in flight
Init ==
    /\ session = None
    /\ messages = <<>>
    /\ todos = <<>>
    /\ files = <<>>
    /\ toolCalls = <<>>
    /\ isStreaming = FALSE
    /\ agentStatus = "idle"
    /\ create = [pc |-> "idle", name |-> None, left |-> None]
    /\ \E sid \in Sessions \cup {None} :
         /\ pendingLoads = IF sid = None THEN EmptyBag ELSE Load(sid, None, "mount")
         /\ loading = (sid # None)
    /\ pendingSends = EmptyBag
    /\ pendingUpdates = EmptyBag
    /\ socketService = [socket |-> 0, connected |-> FALSE, eventHandlers |-> {}]
    /\ io = <<>>
    /\ subscribed = {}
    /\ emitted = <<>>
    /\ last = "none"

\* ---- SocketService called directly, as any importer of the singleton may
ApiChannels == {Channel(s) : s \in Sessions}
ApiEvents == {"agent_token"}

ApiCall(w) ==
    /\ Len(w.io) <= MaxSockets
    /\ \A i \in 1..Len(w.io) : \A k \in EventKinds : w.io[i].listeners[k] <= MaxSubs
    /\ SetNet(w)
    /\ UNCHANGED <<storeVars, asyncVars>>

ApiConnect == ApiCall(connect(Net))
ApiSubscribe == \E c \in ApiChannels : ApiCall(subscribe(Net, c))
ApiUnsubscribe == \E c \in ApiChannels : ApiCall(unsubscribe(Net, c))
ApiOn == \E e \in ApiEvents : ApiCall(on(Net, e))
ApiEmit == \E c \in ApiChannels : ApiCall(emit(Net, "subscribe", c))
ApiDisconnect == ApiCall(disconnect(Net))

\* the conversation in the session the page was mounted with
Next ==
    \/ GetSessionResolves
    \/ GetSessionRejects
    \/ UserSends
    \/ SendMessageResolves
    \/ SendMessageRejects
    \/ AgentToken
    \/ AgentComplete
    \/ AgentError
    \/ Connects

Spec == Init /\ [][Next]_vars

\* the conversation across sessions selected in the sidebar
NextSessions ==
    \/ SelectSession
    \/ Next

SpecSessions == Init /\ [][NextSessions]_vars

\* session switching and the connection's life, with events that dirty the store
NextSwitch ==
    \/ SelectSession
    \/ GetSessionResolves
    \/ GetSessionRejects
    \/ CreateSession
    \/ CreateSessionResolves
    \/ CreateRejected
    \/ CreateListed
    \/ AgentError
    \/ TodoUpdate
    \/ Connects
    \/ Drops
    \/ Reconnects

SpecSwitch == Init /\ [][NextSwitch]_vars

\* the event router: all eight event kinds, for every session
NextRouter ==
    \/ GetSessionResolves
    \/ GetSessionRejects
    \/ AgentToken
    \/ ToolCallStart("bash")
    \/ ToolCallComplete("bash")
    \/ AgentStatus("running")
    \/ TodoUpdate
    \/ FileUpdate
    \/ AgentComplete
    \/ AgentError
    \/ Connects

SpecRouter == Init /\ [][NextRouter]_vars

\* the SocketService alone, under any sequence of calls and transport events
NextSocket ==
    \/ ApiConnect
    \/ ApiSubscribe
    \/ ApiUnsubscribe
    \/ ApiOn
    \/ ApiEmit
    \/ ApiDisconnect
    \/ Connects
    \/ Drops
    \/ Reconnects

SpecSocket == Init /\ [][NextSocket]_vars

\* the tool-call registry across sessions selected in the sidebar
NextTools ==
    \/ SelectSession
    \/ GetSessionResolves
    \/ GetSessionRejects
    \/ \E t \in ToolNames : ToolCallStart(t)
    \/ \E t \in ToolNames : ToolCallComplete(t)
    \/ Connects

SpecTools == Init /\ [][NextTools]_vars

\* the connection's life under a loaded session
NextReconnect ==
    \/ GetSessionResolves
    \/ GetSessionRejects
    \/ UserSends
    \/ SendMessageResolves
    \/ Connects
    \/ Drops
    \/ Reconnects
    \/ ReconnectFails

SpecReconnect == Init /\ [][NextReconnect]_vars

\* the todo panel: toggles, their update_todo calls, and the server's todo lists
NextTodos ==
    \/ SelectSession
    \/ GetSessionResolves
    \/ GetSessionRejects
    \/ TodoUpdate
    \/ ToggleTodos
    \/ UpdateTodoResolves
    \/ UpdateTodoRejects
    \/ Connects

SpecTodos == Init /\ [][NextTodos]_vars

\* the todo and file lists under well-formed and malformed events
NextMalformed ==
    \/ SelectSession
    \/ GetSessionResolves
    \/ GetSessionRejects
    \/ TodoUpdate
    \/ FileUpdate
    \/ MalformedTodoUpdate
    \/ MalformedFileUpdate
    \/ Connects

SpecMalformed == Init /\ [][NextMalformed]_vars

\* ---- the reply to a message, as the server delivers it
\* The server publishes the event that ends a reply to the room of the session's
\* channel: it reaches the client on the held socket when that socket is open and its
\* connection has the channel subscribed.
ReplyEnds(s) ==
    /\ socketService.socket # 0
    /\ Channel(s) \in subscribed
    /\ \/ Deliver(socketService.socket, "agent_complete", [session |-> s])
       \/ \E e \in ErrorTexts :
            Deliver(socketService.socket, "agent_error", [session |-> s, error |-> e])

ServerEndsReply == \E s \in Sessions : ReplyEnds(s)

\* the conversation in the mounted session over a connection that drops and reconnects
NextLive ==
    \/ GetSessionResolves
    \/ GetSessionRejects
    \/ UserSends
    \/ SendMessageResolves
    \/ SendMessageRejects
    \/ ServerEndsReply
    \/ Connects
    \/ Drops
    \/ Reconnects

\* Every call settles and the connection attempt completes; a dropped connection is
\* eventually re-established; an event the server publishes again and again to a room
\* the client's live connection is in is eventually delivered.
Fairness ==
    /\ WF_vars(GetSessionResolves \/ GetSessionRejects)
    /\ WF_vars(SendMessageResolves \/ SendMessageRejects)
    /\ WF_vars(Connects)
    /\ SF_vars(Reconnects)
    /\ \A s \in Sessions : SF_vars(ReplyEnds(s))

SpecLive == Init /\ [][NextLive]_vars /\ Fairness

\* ============================================================= properties
Sub(name) == [op |-> "subscribe", channel |-> Channel(name)]

Streaming == {k \in 1..Len(messages) : messages[k].streaming}
LastIsStreaming == Len(messages) > 0 /\ messages[Len(messages)].streaming
Range(f) == {f[k] : k \in DOMAIN f}

\* C1: every agent_token event addressed to the active session that arrives while the
\* placeholder is the streaming last message appends its fragment to that message
\* exactly once (so the content is the fragments in delivery order), also after
\* session loads and switches.
C1_TokenAppendedOnce ==
    [][\A i \in 1..Len(io), t \in Tokens :
        (session # None /\ LastIsStreaming
         /\ Deliver(i, "agent_token", [session |-> session, token |-> t]))
        => messages' = [messages EXCEPT ![Len(messages)].content = Append(@, t)]]_vars

\* C2: at most one message has streaming = true, in every reachable state.
C2_AtMostOneStreaming == Cardinality(Streaming) <= 1

\* C3: a step that processes an inbound event (of any of the eight kinds) whose session
\* field differs from the loaded session's name leaves every store variable unchanged.
C3_ForeignEventIgnored == [][last' = "foreign" => UNCHANGED storeVars]_vars

\* C3 witness: an event for another session was just processed by a registered
\* listener, with a session loaded whose store holds data an unfiltered handler would touch
C3_Witness ==
    /\ last = "foreign"
    /\ session = "S1"
    /\ ListenerSets >= 1
    /\ todos = <<T1>>
    /\ toolCalls # <<>>

\* C4: when the held socket reconnects while a session is active, exactly one subscribe
\* intent for that session's channel is issued on the new connection.
C4_ResubscribedOnReconnect ==
    [][\A i \in 1..Len(io) :
        (i = socketService.socket /\ session # None /\ SocketReconnects(i))
        => emitted' = <<Sub(session)>>]_vars

\* C5: the call that switches the active session from old to new has issued exactly one
\* unsubscribe, for old's channel, and issues exactly one subscribe, for new's channel,
\* also when switches overlap.
C5_SwitchLeavesOldEntersNew ==
    [][\A p \in BagToSet(pendingLoads) : \A result \in Snapshots(p.sid) :
        (session # None /\ p.sid # session /\ LoadResolved(p, result))
        => (p.left = session /\ emitted' = <<Sub(p.sid)>>)]_vars

\* C6: when the load of session N resolves and the subscribe for N's channel is issued,
\* messages, todos, files and toolCalls are the lists of the get_session(N) response
\* (empty where it has none) and the active session is N.
C6_SwitchLoadsSnapshot ==
    [][\A p \in BagToSet(pendingLoads) : \A result \in Snapshots(p.sid) :
        LoadResolved(p, result)
        => /\ session' = p.sid
           /\ emitted' = <<Sub(p.sid)>>
           /\ messages' = (IF "messages" \in result.missing THEN <<>> ELSE result.messages)
           /\ todos' = (IF "todos" \in result.missing THEN <<>> ELSE result.todos)
           /\ files' = (IF "files" \in result.missing THEN <<>> ELSE result.files)
           /\ toolCalls' = (IF "tool_calls" \in result.missing THEN <<>>
                            ELSE result.tool_calls)]_vars

\* C6 witness: a second or later load has just resolved with the full snapshot and
\* subscribed to the loaded session's channel
C6_Witness ==
    /\ session # None
    /\ emitted = <<Sub(session)>>
    /\ ListenerSets >= 2
    /\ agentStatus = "completed"
    /\ messages = <<OldMessage>>
    /\ toolCalls = <<OldToolCall>>

\* C7: no subscribe intent is issued for a channel that is already subscribed (entered
\* and not left): entering the same session twice in a row issues one intent.
C7_SubscribeIdempotent ==
    [][\A s \in Sessions :
        Channel(s) \in subscribed => Sub(s) \notin Range(emitted')]_vars

\* C8: an agent_error event for the active session processed while the last message is
\* streaming leaves that message with streaming = false.
C8_ErrorFinalizesMessage ==
    [][\A i \in 1..Len(io), e \in ErrorTexts :
        (session # None /\ LastIsStreaming
         /\ Deliver(i, "agent_error", [session |-> session, error |-> e]))
        => ~messages'[Len(messages)].streaming]_vars

\* C9: an agent_error event for the active session sets AgentStatus to error and
\* isStreaming to false and appends exactly one system message carrying the error
\* text; the earlier messages stay as they were.
C9_ErrorAppendsOneNotice ==
    [][\A i \in 1..Len(io), e \in ErrorTexts :
        (session # None /\ io[i].listeners["agent_error"] > 0
         /\ Deliver(i, "agent_error", [session |-> session, error |-> e]))
        => /\ agentStatus' = "error"
           /\ ~isStreaming'
           /\ Len(messages') = Len(messages) + 1
           /\ SubSeq(messages', 1, Len(messages)) = messages
           /\ messages'[Len(messages')].role = "system"
           /\ e \in Range(messages'[Len(messages')].content)]_vars

\* C10: without a disconnect() in between, at most one physical socket exists: every
\* socket io() created, except those disconnect() closed, is the same one.
C10_OneLiveSocket == Cardinality({i \in 1..Len(io) : io[i].conn # "closed"}) <= 1

\* the values the agent status state machine lists
AgentStatuses == {"idle", "thinking", "running", "streaming", "completed", "error"}

\* C11: after an agent_complete event addressed to the active session is processed, no
\* message has streaming = true, the message that was being streamed carries a
\* timestamp, isStreaming is false and AgentStatus is completed.
C11_CompleteFinalizesAll ==
    [][\A i \in 1..Len(io) :
        (session # None /\ io[i].listeners["agent_complete"] > 0
         /\ Deliver(i, "agent_complete", [session |-> session]))
        => /\ Streaming' = {}
           /\ \A k \in Streaming : messages'[k].timestamp
           /\ ~isStreaming'
           /\ agentStatus' = "completed"]_vars

\* C14: AgentStatus is always one of idle, thinking, running, streaming, completed,
\* error, whatever the status of the sessions loaded and the events received.
C14_AgentStatusInRange == agentStatus \in AgentStatuses

\* C15: a token event for the active session moves AgentStatus to streaming only from
\* thinking or running (or leaves it at streaming), and an agent_complete event moves
\* it to completed only from streaming or running (or leaves it at completed).
C15_StatusMachine ==
    [][/\ (last' = "agent_token" /\ agentStatus' = "streaming")
            => agentStatus \in {"thinking", "running", "streaming"}
       /\ (last' = "agent_complete" /\ agentStatus' = "completed")
            => agentStatus \in {"streaming", "running", "completed"}]_vars

\* indices of the running tool calls named t
RunningCalls(t) ==
    {k \in 1..Len(toolCalls) : toolCalls[k].tool_name = t /\ toolCalls[k].status = "running"}

\* C12: a tool_call_complete event for the active session changes exactly one tool call,
\* the earliest running one with the event's tool_name, to success / error with the
\* event's output; when no running tool call has that name the store is unchanged.
C12_CompleteUpdatesFirstRunning ==
    [][\A i \in 1..Len(io), t \in ToolNames, ok \in BOOLEAN :
        (session # None /\ io[i].listeners["tool_call_complete"] > 0
         /\ Deliver(i, "tool_call_complete",
                    [session |-> session, tool_name |-> t, success |-> ok, output |-> "ok"]))
        => IF RunningCalls(t) = {}
           THEN UNCHANGED storeVars
           ELSE LET k == CHOOSE k \in RunningCalls(t) : \A j \in RunningCalls(t) : k <= j
                IN  /\ toolCalls' = [toolCalls EXCEPT
                                        ![k].status = IF ok THEN "success" ELSE "error",
                                        ![k].output = "ok"]
                    /\ UNCHANGED <<session, messages, todos, files, isStreaming, agentStatus>>]_vars

\* C13: a tool_call_start event for the active session appends exactly one running tool
\* call with the event's tool_name and input to the end of toolCalls, sets AgentStatus to
\* running and leaves messages, todos and files unchanged.
C13_StartAppendsOneRunning ==
    [][\A i \in 1..Len(io), t \in ToolNames :
        (session # None /\ io[i].listeners["tool_call_start"] > 0
         /\ Deliver(i, "tool_call_start", [session |-> session, tool_name |-> t, input |-> "ls"]))
        => /\ toolCalls' = Append(toolCalls, [tool_name |-> t, input |-> "ls",
                                              status |-> "running", output |-> None])
           /\ agentStatus' = "running"
           /\ UNCHANGED <<messages, todos, files>>]_vars

\* C16: a sendMessage with non-blank content, isStreaming false and a session loaded
\* appends, in the step that issues the send_message call, exactly two messages: the
\* user's with the given content, then an empty assistant message with streaming =
\* true; it sets isStreaming to true and AgentStatus to thinking.
C16_SendAppendsPair ==
    [][\A c \in Contents :
        (c # " " /\ ~isStreaming /\ session # None /\ SendMessage(c))
        => /\ messages' = messages \o <<Msg("user", <<c>>, FALSE, TRUE),
                                        Msg("assistant", <<>>, TRUE, FALSE)>>
           /\ isStreaming'
           /\ agentStatus' = "thinking"
           /\ pendingSends' = pendingSends (+) SetToBag({session})]_vars

\* C16 witness: a message was just sent in a session loaded with an older transcript;
\* its send_message call is in flight
C16_Witness ==
    /\ pendingSends # EmptyBag
    /\ isStreaming
    /\ agentStatus = "thinking"
    /\ messages = <<OldMessage, Msg("user", <<"hi">>, FALSE, TRUE),
                    Msg("assistant", <<>>, TRUE, FALSE)>>

\* C17: when a send_message call rejects, the call is not issued again, exactly one
\* system message describing the failure is appended, AgentStatus becomes error and
\* isStreaming becomes false.
C17_SendFailureReported ==
    [][\A s \in Sessions, m \in ErrorMessages :
        SendRejected(s, [message |-> m])
        => /\ BagCardinality(pendingSends') = BagCardinality(pendingSends) - 1
           /\ Len(messages') = Len(messages) + 1
           /\ SubSeq(messages', 1, Len(messages)) = messages
           /\ messages'[Len(messages')].role = "system"
           /\ Range(messages'[Len(messages')].content) \cap {"boom", "Failed to send message"} # {}
           /\ agentStatus' = "error"
           /\ ~isStreaming']_vars

\* C17 witness: the send_message call of the message just sent rejected; the failure
\* notice follows the placeholder and nothing is in flight
C17_Witness ==
    /\ pendingSends = EmptyBag
    /\ agentStatus = "error"
    /\ ~isStreaming
    /\ Len(messages) = 3
    /\ messages[2].role = "assistant"
    /\ messages[3] = Msg("system", <<"Error: ", "Failed to send message">>, FALSE, FALSE)

\* C18: while a switch away from session O is under way (O's channel unsubscribed, the
\* get_session call for the new session pending), an event addressed to O leaves the
\* store unchanged.
C18_OldSessionEventDropped ==
    [][\A p \in BagToSet(pendingLoads), i \in 1..Len(io), l \in TodoLists \cup {<<>>} :
        (p.left # None /\ p.sid # p.left /\ Channel(p.left) \notin subscribed
         /\ Deliver(i, "todo_update", [session |-> p.left, todos |-> l]))
        => UNCHANGED storeVars]_vars

\* C19: in a step that neither starts nor settles a session load, messages only grows,
\* a message's content changes only if it is the last one and its streaming flag is
\* true, and a cleared streaming flag stays cleared; so a token event processed when
\* the last message is not streaming (after agent_complete or agent_error) leaves
\* messages as it is.
C19_TranscriptAppendOnly ==
    [][pendingLoads' = pendingLoads
        => /\ Len(messages') >= Len(messages)
           /\ \A k \in 1..Len(messages) :
                /\ messages'[k].role = messages[k].role
                /\ messages'[k].content # messages[k].content
                     => (k = Len(messages) /\ messages[k].streaming)
                /\ ~messages[k].streaming => ~messages'[k].streaming
           /\ (last' = "agent_token" /\ ~LastIsStreaming) => messages' = messages]_vars

\* C19 witness: a token event for the loaded session was just processed with a
\* finalized, non-empty reply as the last message
C19_Witness ==
    /\ last = "agent_token"
    /\ ListenerSets >= 1
    /\ Len(messages) >= 2
    /\ messages[Len(messages)].role = "assistant"
    /\ ~messages[Len(messages)].streaming
    /\ messages[Len(messages)].timestamp
    /\ messages[Len(messages)].content # <<>>

\* C20: with no socket held, subscribe(c) creates the connection and issues the
\* subscribe intent for c on it, and unsubscribe(c) does nothing; neither touches a
\* socket that does not exist.
C20_SubscribeBeforeConnect ==
    [][socketService.socket = 0
        => \A c \in ApiChannels :
            /\ ApiCall(subscribe(Net, c))
                 => /\ Len(io') = Len(io) + 1
                    /\ socketService'.socket = Len(io')
                    /\ io'[Len(io')].conn = "connecting"
                    /\ emitted' = <<[op |-> "subscribe", channel |-> c]>>
                    /\ c \in subscribed'
            /\ ApiCall(unsubscribe(Net, c))
                 => /\ UNCHANGED <<socketService, io, subscribed>>
                    /\ emitted' = <<>>]_vars

\* C20 witness: the first call on the service was subscribe: one socket, still
\* connecting, no listener on it, and the intent issued
C20_Witness ==
    /\ Len(io) = 1
    /\ socketService.socket = 1
    /\ io[1] = NewSocket
    /\ emitted = <<Sub("S1")>>
    /\ subscribed = {Channel("S1")}

\* C21: right after disconnect() the service holds no socket, connected is false, the
\* handler registry is empty, and every socket that carries listeners is closed, so no
\* listener registered before the disconnect can be invoked by a later event.
C21_DisconnectSilencesHandlers ==
    [][(socketService.socket # 0 /\ ApiCall(disconnect(Net)))
        => /\ socketService' = [socket |-> 0, connected |-> FALSE, eventHandlers |-> {}]
           /\ \A i \in 1..Len(io') :
                (\E k \in EventKinds : io'[i].listeners[k] > 0) => io'[i].conn = "closed"]_vars

\* C22: a dropped socket makes at most reconnectionAttempts reconnection attempts, and
\* when the last one fails while a session is loaded the failure is shown to the user:
\* a system message is appended to the transcript and AgentStatus becomes error.
C22_ReconnectFailureSurfaced ==
    [][\A i \in 1..Len(io) :
        /\ io'[i].attempts <= reconnectionAttempts
        /\ (i = socketService.socket /\ session # None
            /\ SocketReconnectFails(i) /\ io'[i].conn = "failed")
           => /\ agentStatus' = "error"
              /\ Len(messages') = Len(messages) + 1
              /\ messages'[Len(messages')].role = "system"]_vars

\* C23 as claimed: a toggle flips the todo's status in the store at once, before the
\* update_todo call resolves.
C23_ToggleFlipsAtOnce ==
    [][\A k \in 1..Len(todos) :
        ToggleTodo(k) => todos'[k].status = toggleTodo(todos[k])]_vars

\* C23 as amended: a toggle leaves the store as it is until its update_todo call
\* resolves, and when that call fails the store is unchanged, the todo keeping the
\* status it had.
C23_ToggleWaitsForCall ==
    [][/\ \A k \in 1..Len(todos) : ToggleTodo(k) => UNCHANGED storeVars
       /\ \A u \in BagToSet(pendingUpdates) : UpdateTodoRejected(u) => UNCHANGED storeVars]_vars

\* C23 witness: a toggle's update_todo call is in flight (to resolve or fail) and the
\* todo it names still has its old status in the store
C23_Witness ==
    /\ pendingUpdates # EmptyBag
    /\ \A u \in BagToSet(pendingUpdates) :
         \E k \in 1..Len(todos) : todos[k].name = u.name /\ todos[k].status # u.status

\* C24: a todo_update (file_update) event for the active session makes todos (files)
\* exactly the event's list and leaves messages, toolCalls, the other list,
\* AgentStatus and isStreaming unchanged.
C24_ListsReplacedWholesale ==
    [][\A i \in 1..Len(io) :
        /\ \A l \in TodoLists \cup {<<>>} :
             (session # None /\ io[i].listeners["todo_update"] > 0
              /\ Deliver(i, "todo_update", [session |-> session, todos |-> l]))
             => /\ todos' = l
                /\ UNCHANGED <<session, messages, files, toolCalls, isStreaming, agentStatus>>
        /\ \A l \in FileLists \cup {<<>>} :
             (session # None /\ io[i].listeners["file_update"] > 0
              /\ Deliver(i, "file_update", [session |-> session, files |-> l]))
             => /\ files' = l
                /\ UNCHANGED <<session, messages, todos, toolCalls, isStreaming, agentStatus>>]_vars

\* C24 witness: a todo_update with an empty list was just processed in a session loaded
\* with a todo, a file, a message and a tool call: only the todo is gone
C24_Witness ==
    /\ last = "todo_update"
    /\ ListenerSets >= 1
    /\ todos = <<>>
    /\ files = <<"f1">>
    /\ messages = <<OldMessage>>
    /\ toolCalls = <<OldToolCall>>
    /\ agentStatus = "completed"

\* a JavaScript array: a function on 1..n
IsList(x) == DOMAIN x = 1..Cardinality(DOMAIN x)

\* C25: a todo_update or file_update event for the active session whose payload lacks
\* its list is dropped, leaving the store unchanged, and todos and files are always
\* lists.
C25_MalformedEventDropped ==
    [][/\ \A i \in 1..Len(io) :
            \/ (session # None /\ io[i].listeners["todo_update"] > 0
                /\ Deliver(i, "todo_update", [session |-> session, todos |-> Undefined]))
            \/ (session # None /\ io[i].listeners["file_update"] > 0
                /\ Deliver(i, "file_update", [session |-> session, files |-> Undefined]))
            => UNCHANGED storeVars
       /\ IsList(todos')
       /\ IsList(files')]_vars

\* C26: in a step that neither starts nor settles a session load, a tool call whose
\* status is success or error stays in toolCalls exactly as it is: no later event
\* changes its status or output.
C26_FinishedToolCallFrozen ==
    [][pendingLoads' = pendingLoads
        => \A k \in 1..Len(toolCalls) :
             toolCalls[k].status \in {"success", "error"}
             => (k <= Len(toolCalls') /\ toolCalls'[k] = toolCalls[k])]_vars

\* C26 witness: a tool_call_complete event was just processed in a session loaded as
\* completed whose only tool call had already succeeded, no tool call having started
\* since the load
C26_Witness ==
    /\ last = "tool_call_complete"
    /\ ListenerSets >= 1
    /\ agentStatus = "completed"
    /\ toolCalls = <<OldToolCall>>

\* C27 as claimed: sendMessage with blank content, or while isStreaming is true, or
\* with no session loaded appends no message, leaves isStreaming and AgentStatus
\* unchanged and issues no send_message call; so at most one send_message call is in
\* progress.
C27_SendGuarded ==
    [][/\ \A c \in Contents :
            ((c = " " \/ isStreaming \/ session = None) /\ SendMessage(c))
            => UNCHANGED <<storeVars, pendingSends>>
       /\ BagCardinality(pendingSends') <= 1]_vars

\* C27 as amended: sendMessage with blank content, or while isStreaming is true, or
\* with no session loaded appends no message, leaves isStreaming and AgentStatus
\* unchanged and issues no send_message call; so a send_message call is issued only
\* while isStreaming is false and a session is loaded.
C27_SendGuardNoOp ==
    [][/\ \A c \in Contents :
            ((c = " " \/ isStreaming \/ session = None) /\ SendMessage(c))
            => UNCHANGED <<storeVars, pendingSends>>
       /\ BagCardinality(pendingSends') > BagCardinality(pendingSends)
            => (~isStreaming /\ session # None)]_vars

\* C27 witness: with the reply streaming and its send_message call in flight, the last
\* step was a sendMessage that did nothing
C27_Witness ==
    /\ isStreaming
    /\ LastIsStreaming
    /\ messages[Len(messages)].content # <<>>
    /\ pendingSends # EmptyBag
    /\ last = "none"

\* C28: when get_session fails, loadSession sets AgentStatus to error and loading to
\* false and leaves session, messages, todos, files and toolCalls as they are; when it
\* succeeds, AgentStatus is idle exactly when the loaded session's status is active.
C28_LoadOutcome ==
    [][\A p \in BagToSet(pendingLoads) :
        /\ LoadRejected(p)
             => /\ agentStatus' = "error"
                /\ ~loading'
                /\ UNCHANGED <<session, messages, todos, files, toolCalls>>
        /\ \A result \in Snapshots(p.sid) :
             LoadResolved(p, result)
             => ((agentStatus' = "idle") <=> (result.status = "active"))]_vars

\* C28 witness: the get_session call of a switch failed: the earlier session is still
\* loaded, with the todo an event wrote after the switch cleared the lists
C28_Witness ==
    /\ session # None
    /\ agentStatus = "error"
    /\ ~loading
    /\ pendingLoads = EmptyBag
    /\ todos = <<T1>>
    /\ messages = <<>>
    /\ emitted = <<Sub(session)>>

\* C29: on every socket at most one handler is registered per event kind, whatever
\* mounts, loads and switches have happened.
C29_OneHandlerPerEvent ==
    \A i \in 1..Len(io) : \A k \in EventKinds : io[i].listeners[k] <= 1

\* C30: whenever no session switch is in progress (no get_session call pending, no
\* createSession under way), the channels subscribed are at most the channel of the
\* active session.
C30_OnlyActiveChannel ==
    (pendingLoads = EmptyBag /\ create.pc = "idle")
    => subscribed \subseteq (IF session = None THEN {} ELSE {Channel(session)})

\* C31: once a switch to session N has completed (N loaded, no load pending), the
\* failure of a send_message call issued for another session leaves messages,
\* isStreaming and AgentStatus as they are.
C31_OldSendOutcomeDropped ==
    [][\A s \in Sessions, m \in ErrorMessages :
        (session # None /\ s # session /\ pendingLoads = EmptyBag
         /\ SendRejected(s, [message |-> m]))
        => UNCHANGED <<messages, isStreaming, agentStatus>>]_vars

\* C32: in every reachable state isStreaming is true exactly when some message has
\* streaming = true.
C32_GuardMatchesFlags == isStreaming <=> (Streaming # {})

\* C33: when the load of a switch from a loaded session to another one resolves,
\* isStreaming is false, so that a non-blank sendMessage in the session just loaded is
\* accepted, also when the session left was streaming a reply.
C33_SendAcceptedAfterSwitch ==
    [][\A p \in BagToSet(pendingLoads) : \A result \in Snapshots(p.sid) :
        (p.by # "mount" /\ p.left # None /\ p.left = session /\ p.sid # p.left
         /\ LoadResolved(p, result))
        => (~isStreaming' /\ Accepted(Store', "hi"))]_vars

\* C34: every accepted sendMessage (which sets isStreaming) is eventually followed by
\* isStreaming = false, when the server ends the reply with agent_complete or
\* agent_error and every drop of the connection is followed by a reconnect.
C34_SendEventuallySettles == isStreaming ~> ~isStreaming

\* C35: in every reachable state the connected flag is true exactly when the service
\* holds a socket and that socket is connected; in particular connected = true implies
\* that a socket is held.
C35_FlagMatchesHeldSocket ==
    socketService.connected
    <=> (socketService.socket # 0 /\ io[socketService.socket].conn = "open")

====
